---- MODULE Spec2Model ----
(***************************************************************************)
(* Model of the calculation engines of catastrofy-2:                       *)
(*   - computeMortgage (mortgageMath): the monthly amortization loop,      *)
(*   - computeSchedule (calculator): the revolving-credit cycle loop, in   *)
(*     its minimum-payment form and in its target-months form.             *)
(*                                                                         *)
(* Numbers.  The source computes with IEEE doubles.  Here every amount is  *)
(* an integer count of Unit-ths of a peso (Unit = 10000, i.e. a hundredth  *)
(* of a cent), so that the values round2 has to round (interest, annuity   *)
(* payments, growth factors) keep a sub-cent part.  Rates are integers in  *)
(* basis points (1/10000), growth and power factors are fixed point with   *)
(* scale PowScale.  Products are formed by MulDiv, which is exact.         *)
(***************************************************************************)
EXTENDS Integers, Sequences, FiniteSets, TLC

\* ------------------------------------------------------------------------
\* Number representation
\* ------------------------------------------------------------------------
Unit == 10000            \* model units per peso
f == 100                 \* round2: f = Math.pow(10, 2), cents per peso
Cent == Unit \div f      \* model units per cent
BpDen == 10000           \* a rate of 1.0 in basis points
PowScale == 1000000000   \* fixed-point scale of power factors
MonthsPerYear == 12
Null == -1               \* null / undefined

Max(a, b) == IF a >= b THEN a ELSE b
Min(a, b) == IF a <= b THEN a ELSE b

\* <<carry, (a + b) mod z>> for 0 <= a, b < z, without forming a + b
AddMod(a, b, z) == IF a >= z - b THEN <<1, a - (z - b)>> ELSE <<0, a + b>>

\* r * y = q * z + rem with 0 <= r < z, 0 <= y: binary long multiplication
\* that never forms a value above 2 * z.
RECURSIVE MulRem(_, _, _)
MulRem(r, y, z) ==
  IF y = 0 THEN <<0, 0>>
  ELSE LET h == MulRem(r, y \div 2, z)
           d == AddMod(h[2], h[2], z)
           e == IF y % 2 = 1 THEN AddMod(d[2], r, z) ELSE <<0, d[2]>>
       IN <<2 * h[1] + d[1] + e[1], e[2]>>

\* floor(x * y / z) for x, y >= 0 and z > 0
MulDiv(x, y, z) == (x \div z) * y + MulRem(x % z, y, z)[1]

\* Math.pow(1 + num/den, k), k >= 0, in fixed point
RECURSIVE PowFix(_, _, _)
PowFix(num, den, k) ==
  IF k = 0 THEN PowScale
  ELSE LET p == PowFix(num, den, k - 1) IN p + MulDiv(p, num, den)

\* Math.pow(1 + num/den, -k), k >= 0, in fixed point
RECURSIVE PowNeg(_, _, _)
PowNeg(num, den, k) ==
  IF k = 0 THEN PowScale
  ELSE MulDiv(PowNeg(num, den, k - 1), den, den + num)

\* Floating point.  round2 and roundToCents form v * 100 in doubles, and the
\* double of an amount of k cents times 100 is not always k: 0.29 * 100 is
\* 28.999999999999996, 8753.03 * 100 is 875303.0000000001 and 1.005 * 100 is
\* 100.49999999999999, so that Math.floor gives k - 1, Math.ceil gives k + 1
\* and Math.round misses a half.  Which amounts do so is a fixed property of
\* the arithmetic; fpErr selects them: the cent counts congruent to fpErr
\* modulo NoiseMod (about one amount in sixteen behaves so), none when fpErr
\* is Null.  Zero is exact.  The double of v * 100 is one number, below k or
\* above it, never both: Math.floor and Math.ceil of it are at most 1 apart.
VARIABLE fpErr

NoiseMod == 16
NoisePatterns == 2       \* fpErr ranges over Null and 0..NoisePatterns - 1

FpPatterns == {Null} \cup (0..(NoisePatterns - 1))

Inexact(k) == fpErr # Null /\ k # 0 /\ k % NoiseMod = fpErr

\* the double of k cents times 100 lies below k, or above k
InexactBelow(k) == Inexact(k) /\ (k \div NoiseMod) % 2 = 1
InexactAbove(k) == Inexact(k) /\ (k \div NoiseMod) % 2 = 0

\* round2(v, mode)
round2(v, mode) ==
  LET k == v \div Cent
      whole == v % Cent = 0
      half == v % Cent = Cent \div 2
  IN IF mode = "floor"
     THEN (IF whole /\ InexactBelow(k) THEN k - 1 ELSE k) * Cent
     ELSE IF mode = "ceil"
     THEN (IF whole THEN (IF InexactAbove(k) THEN k + 1 ELSE k)
           ELSE k + 1) * Cent
     ELSE (IF half /\ Inexact(k) THEN k ELSE (v + Cent \div 2) \div Cent) * Cent

\* getMonthlyRateForMonth, as the annual rate in basis points; the caller
\* divides by 12 (MonthlyOf).
RECURSIVE FindBand(_, _, _)
FindBand(bands, mm, i) ==
  IF i > Len(bands) THEN 0
  ELSE IF mm >= bands[i].fromMonth
          /\ (bands[i].toMonth = Null \/ mm <= bands[i].toMonth)
       THEN i
       ELSE FindBand(bands, mm, i + 1)

\* faulty variant: no band contains the month: the first band, not the last
getMonthlyRateFirstFallback(bands, mm) ==
  LET b == FindBand(bands, mm, 1)
  IN IF b # 0 THEN bands[b].annualRate ELSE bands[1].annualRate

getMonthlyRateForMonth(bands, mm) ==
  LET b == FindBand(bands, mm, 1)
  IN IF b # 0 THEN bands[b].annualRate ELSE bands[Len(bands)].annualRate

\* v * (annual / 12)
MonthlyOf(v, annualBp) == MulDiv(v, annualBp, MonthsPerYear * BpDen)

\* annuity(pv, r, n) = (pv * r) / (1 - Math.pow(1 + r, -n)), r given as the
\* annual rate in basis points
annuity(pv, annualBp, n) ==
  IF annualBp = 0 THEN pv \div n
  ELSE LET d == PowScale - PowNeg(annualBp, MonthsPerYear * BpDen, n)
       IN MonthlyOf(MulDiv(pv, PowScale, d), annualBp)

\* ------------------------------------------------------------------------
\* computeMortgage: inputs
\* ------------------------------------------------------------------------
PpmDen == 1000000        \* adminDeferredMonthlyPct is given in millionths
PorMilDen == 100         \* initialPagoPorMil is given in hundredths

MaxTerm == 4             \* short terms are MaxTerm - 1 and MaxTerm months
GrowthTail == 2          \* months left after a one-year growth window
MaxPrepayMonth == 3      \* prepayments fall in months 1..MaxPrepayMonth

Band(from, to, rate) == [fromMonth |-> from, toMonth |-> to, annualRate |-> rate]
Prepay(mo, amt) == [month |-> mo, amount |-> amt]

BandLists ==
  { <<Band(1, Null, 1200)>>,
    <<Band(1, Null, 0)>>,
    <<Band(1, 2, 1200), Band(3, Null, 2400)>>,
    <<Band(1, 1, 1200), Band(2, Null, 60000)>>,
    <<Band(2, 3, 1200), Band(4, Null, 600)>> }

PrepayLists ==
  { <<>> }
  \cup { <<Prepay(mo, 100000)>> : mo \in {1, MaxPrepayMonth} }
  \cup { <<Prepay(2, 500050)>>,
         <<Prepay(1, 400000), Prepay(1, 500000)>>,
         <<Prepay(2, 9000000)>>,
         <<Prepay(1, 200000), Prepay(MaxPrepayMonth, 200000)>> }

\* product, term and growth settings go together
GrowthNone == [annualIncreasePct |-> 0, increaseEndYear |-> 0,
               initialPagoPorMil |-> 0]
ShortPlans ==
  { [product |-> "hipoteca_fija", termMonths |-> n, growth |-> GrowthNone] :
      n \in (MaxTerm - 1)..MaxTerm }
  \cup
  { [product |-> "hipoteca_creciente", termMonths |-> MaxTerm - 1,
     growth |-> [annualIncreasePct |-> 500, increaseEndYear |-> y,
                 initialPagoPorMil |-> ppm]] :
      y \in 0..1, ppm \in {0, 500, 30000} }

LongPlans ==
  { [product |-> "hipoteca_creciente",
     termMonths |-> MonthsPerYear + GrowthTail,
     growth |-> g] :
      g \in { [annualIncreasePct |-> 500, increaseEndYear |-> 1,
               initialPagoPorMil |-> 8000],
              [annualIncreasePct |-> 0, increaseEndYear |-> 1,
               initialPagoPorMil |-> 0],
              [annualIncreasePct |-> 500, increaseEndYear |-> 2,
               initialPagoPorMil |-> 7000] } }

LongBandLists ==
  { <<Band(1, Null, 1200)>>, <<Band(1, 2, 1200), Band(3, Null, 2400)>> }

LongPrepayLists ==
  { <<>>, <<Prepay(2, 100000)>>, <<Prepay(MonthsPerYear + 1, 100000)>>,
    <<Prepay(1, 200000), Prepay(MaxPrepayMonth, 200000)>> }

\* a year and a half, with a one-cent prepayment in or after the growth year
SlipPlans ==
  { [product |-> "hipoteca_creciente",
     termMonths |-> MonthsPerYear + MonthsPerYear \div 2,
     growth |-> [annualIncreasePct |-> 500, increaseEndYear |-> 1,
                 initialPagoPorMil |-> 7000]] }
SlipPrepayLists == { <<>>, <<Prepay(MonthsPerYear - 3, Cent)>> }

PropertyValue == 4000000
Ltv == 80                \* percent

\* cost and insurance settings go together
NoInsurance == [lifeAnnualRateOnBalance |-> 0,
                hazardAnnualRateOnInsuredValue |-> 0,
                insuredValueFactor |-> 100,
                reindexInsuredValueAnnualPct |-> 0]
SomeInsurance == [lifeAnnualRateOnBalance |-> 72,
                  hazardAnnualRateOnInsuredValue |-> 23,
                  insuredValueFactor |-> 80,
                  reindexInsuredValueAnnualPct |-> 400]

Costs(adminPpm) == [openingCommissionPct |-> 100,
                    adminDeferredMonthlyPct |-> adminPpm,
                    appraisalCost |-> 50000, notaryCost |-> 120000,
                    preoriginationCost |-> 7500]

\* principal (Null = derived from propertyValue and ltv), costs, insurance
Loans ==
  { <<Null, Costs(0), NoInsurance>>,
    <<3000000, Costs(450), SomeInsurance>> }

\* a principal and a prepayment that are not whole cents
OddLoan == <<1000050, Costs(450), SomeInsurance>>
OddPlans ==
  { pl \in ShortPlans : pl.growth.initialPagoPorMil = 0
                        /\ pl.growth.increaseEndYear = 0
                        /\ pl.termMonths = MaxTerm - 1 }
OddPrepayLists == { <<>>, <<Prepay(2, 500050)>> }

\* The resolved input of computeMortgage (defaults filled in).
MortgageInput(pl, ln, bs, pp, pm, rm) ==
  [product |-> pl.product, propertyValue |-> PropertyValue, ltv |-> Ltv,
   principal |-> IF ln[1] = Null
                 THEN round2(MulDiv(PropertyValue, Ltv, 100), "round")
                 ELSE ln[1],
   termMonths |-> pl.termMonths, interest |-> [bands |-> bs],
   growth |-> pl.growth, costs |-> ln[2], insurance |-> ln[3],
   prepayments |-> pp, prepaymentMode |-> pm, roundingMode |-> rm]

PrepaymentModes == {"reduce_term", "reduce_installment"}
RoundingModes == {"round", "floor", "ceil"}

MortgageInputs ==
  { MortgageInput(pl, ln, bs, pp, pm, rm) :
      pl \in ShortPlans, ln \in Loans, bs \in BandLists, pp \in PrepayLists,
      pm \in PrepaymentModes, rm \in RoundingModes }
  \cup
  { MortgageInput(pl, OddLoan, <<Band(1, Null, 1200)>>, pp, pm, rm) :
      pl \in OddPlans, pp \in OddPrepayLists,
      pm \in PrepaymentModes, rm \in RoundingModes }
  \cup
  { MortgageInput(pl, ln, bs, pp, pm, rm) :
      pl \in LongPlans, ln \in Loans, bs \in LongBandLists,
      pp \in LongPrepayLists, pm \in PrepaymentModes, rm \in RoundingModes }
  \cup
  { MortgageInput(pl, <<3000000, Costs(0), NoInsurance>>,
                  <<Band(1, Null, 2400)>>, pp, pm, rm) :
      pl \in SlipPlans, pp \in SlipPrepayLists,
      pm \in PrepaymentModes, rm \in RoundingModes }

\* ------------------------------------------------------------------------
\* computeMortgage: state
\* ------------------------------------------------------------------------
VARIABLES
  input,                 \* the resolved MortgageInput
  m,                     \* loop counter
  balance,
  rows,
  interestTotal, baseTotal, insuranceTotal, adminTotal,
  fixedBase,             \* value returned by basePaymentFn, other products
  fixedBaseAfterGrowth,  \* closure variable of the creciente basePaymentFn
  computeFixed,          \* __computeFixedAfterGrowth: Null = the original
                         \* helper, else the constant the replacement returns
  status,                \* "running", "done" (returned), "error" (thrown)
  errMonth,              \* month named by the thrown error
  result                 \* <<the returned MortgageResult>>, <<>> before return

VARIABLES
  engine,                \* which computeSchedule runs: "minimum" or "target"
  cinput,                \* the CalculationInput of computeSchedule
  currentBalance,
  monthIndex,
  schedule,
  cstatus,               \* "running", "done" (returned), "error" (thrown)
  cerror                 \* what the thrown error reports, "" if none

VARIABLES
  call,                  \* a direct call of an exported helper: the function
                         \* called and its arguments
  ret                    \* <<what the call returned or threw>>, <<>> before

fvars == <<call, ret>>

\* no direct call of a helper
NoCall == [fn |-> "none"]

cvars == <<engine, cinput, currentBalance, monthIndex, schedule, cstatus,
           cerror>>

mvars == <<fpErr, input, m, balance, rows, interestTotal, baseTotal, insuranceTotal,
           adminTotal, fixedBase, fixedBaseAfterGrowth, computeFixed, status,
           errMonth, result>>

\* faulty variant: the rate of the last month instead of month 1
buildFixedBaseLastRate(inp) ==
  annuity(inp.principal,
          getMonthlyRateForMonth(inp.interest.bands, inp.termMonths),
          inp.termMonths)

\* buildFixedBasePayment
buildFixedBasePayment(inp) ==
  annuity(inp.principal, getMonthlyRateForMonth(inp.interest.bands, 1),
          inp.termMonths)

\* makeIncreasingBasePayment: monthsOfGrowth, initialBase, baseForMonthBeforeFix
monthsOfGrowth(inp) ==
  Min(inp.termMonths, inp.growth.increaseEndYear * MonthsPerYear)

initialBase(inp) ==
  IF inp.growth.initialPagoPorMil # 0
  THEN MulDiv(inp.principal, inp.growth.initialPagoPorMil, 1000 * PorMilDen)
  ELSE MulDiv(buildFixedBasePayment(inp), 9, 10)

baseForMonthBeforeFix(inp, mm) ==
  LET yearIndex == (mm - 1) \div MonthsPerYear
      factor == IF mm <= monthsOfGrowth(inp)
                THEN PowFix(inp.growth.annualIncreasePct, BpDen, yearIndex)
                ELSE PowScale
  IN MulDiv(initialBase(inp), factor, PowScale)

monthlyAdminCommission(inp) ==
  round2(MulDiv(inp.principal, inp.costs.adminDeferredMonthlyPct, PpmDen),
         inp.roundingMode)

\* prepayByMonth.get(m) ?? 0
RECURSIVE prepayByMonth(_, _)
prepayByMonth(pps, mm) ==
  IF pps = <<>> THEN 0
  ELSE (IF Head(pps).month = mm THEN Head(pps).amount ELSE 0)
       + prepayByMonth(Tail(pps), mm)

\* basePaymentFn(m, balance) as installed before the loop and as replaced in it
basePaymentFn(inp, s) ==
  IF inp.product = "hipoteca_creciente"
  THEN IF s.m <= monthsOfGrowth(inp) THEN baseForMonthBeforeFix(inp, s.m)
       ELSE IF s.fixedBaseAfterGrowth # Null THEN s.fixedBaseAfterGrowth
       ELSE 0
  ELSE s.fixedBase

\* faulty variant: the month of the recomputation is not counted as remaining
computeFixedOffByOne(inp, remainingBalance, fromMonth) ==
  annuity(remainingBalance,
          getMonthlyRateForMonth(inp.interest.bands, fromMonth),
          inp.termMonths - fromMonth)

\* __computeFixedAfterGrowth(remainingBalance, fromMonth) as first installed
computeFixedAfterGrowth(inp, remainingBalance, fromMonth) ==
  LET monthsLeft == inp.termMonths - (fromMonth - 1)
  IN annuity(remainingBalance,
             getMonthlyRateForMonth(inp.interest.bands, fromMonth), monthsLeft)

\* the base payment the loop resolves for month s.m, before the
\* last-installment adjustment and before rounding
ResolveBase(inp, s) ==
  IF /\ inp.product = "hipoteca_creciente"
     /\ s.m = inp.growth.increaseEndYear * MonthsPerYear + 1
  THEN IF s.computeFixed # Null THEN s.computeFixed
       ELSE computeFixedAfterGrowth(inp, s.balance, s.m)
  ELSE basePaymentFn(inp, s)

\* interest = balance * r
AccruedInterest(inp, s) ==
  MonthlyOf(s.balance, getMonthlyRateForMonth(inp.interest.bands, s.m))

\* faulty variant: the guard skips the last month
ThrowGuardSkipsLast(principal0, mm, n) == principal0 < 0 /\ mm < n

\* if (principal < 0 && m <= n) throw
ThrowGuard(principal0, mm, n) == principal0 < 0 /\ mm <= n

\* the prepayment applied: round2(prepayByMonth.get(m) ?? 0), clamped
ApplyPrepayment(inp, s, principal) ==
  LET prep0 == round2(prepayByMonth(inp.prepayments, s.m), inp.roundingMode)
  IN IF prep0 > 0 /\ prep0 > s.balance - principal
     THEN round2(s.balance - principal, inp.roundingMode)
     ELSE prep0

\* closing = round2(balance - principal - prepayment, rounding)
ClosingBalance(bal, principal, prepayment, rounding) ==
  round2(bal - principal - prepayment, rounding)

\* faulty variant: the base is recomputed in every prepayment mode
ReducesInstallmentAnyMode(inp, mm, prepayment) ==
  prepayment > 0 /\ inp.termMonths - mm > 0

\* a prepayment recomputes the base for the months left:
\* prepayment > 0 && prepaymentMode === 'reduce_installment', monthsLeft > 0
ReducesInstallment(inp, mm, prepayment) ==
  /\ prepayment > 0
  /\ inp.prepaymentMode = "reduce_installment"
  /\ inp.termMonths - mm > 0

\* faulty variant: the prepayment is left out of the total
TotalPaymentNoPrepayment(base, insurance, admin, prepayment, rounding) ==
  round2(base + insurance + admin, rounding)

\* totalPayment = round2(base + insurance + admin + prepayment, rounding)
TotalPayment(base, insurance, admin, prepayment, rounding) ==
  round2(base + insurance + admin + prepayment, rounding)

\* One pass through the body of the loop for the loop state s:
\* the row it pushes, whether it throws, and the closure state it leaves.
Month(inp, s) ==
  LET n == inp.termMonths
      rounding == inp.roundingMode
      bands == inp.interest.bands
      crec == inp.product = "hipoteca_creciente"
      atFix == crec /\ s.m = inp.growth.increaseEndYear * MonthsPerYear + 1
      base0 == ResolveBase(inp, s)
      fbag == IF atFix /\ s.computeFixed = Null THEN base0
              ELSE s.fixedBaseAfterGrowth
      interest0 == AccruedInterest(inp, s)
      principal0 == base0 - interest0
      last == principal0 > s.balance
      principal1 == IF last THEN s.balance ELSE principal0
      base1 == IF last THEN interest0 + s.balance ELSE base0
      yearIndex == (s.m - 1) \div MonthsPerYear
      insuredValue ==
        MulDiv(MulDiv(inp.propertyValue, inp.insurance.insuredValueFactor, 100),
               PowFix(inp.insurance.reindexInsuredValueAnnualPct, BpDen,
                      yearIndex),
               PowScale)
      life == MonthlyOf(s.balance, inp.insurance.lifeAnnualRateOnBalance)
      hazard == MonthlyOf(insuredValue,
                          inp.insurance.hazardAnnualRateOnInsuredValue)
      interest == round2(interest0, rounding)
      principal == round2(principal1, rounding)
      base == round2(base1, rounding)
      insurance == round2(life + hazard, rounding)
      admin == monthlyAdminCommission(inp)
      prepayment == ApplyPrepayment(inp, s, principal)
      closing == ClosingBalance(s.balance, principal, prepayment, rounding)
      recompute == ReducesInstallment(inp, s.m, prepayment)
      newBase == annuity(closing, getMonthlyRateForMonth(bands, s.m + 1),
                         n - s.m)
  IN [ throws |-> ThrowGuard(principal0, s.m, n),
       row |-> [month |-> s.m, openingBalance |-> s.balance,
                interest |-> interest, principal |-> principal,
                basePayment |-> base, insurance |-> insurance,
                adminCommission |-> admin,
                totalPayment |->
                  TotalPayment(base, insurance, admin, prepayment, rounding),
                prepayment |-> prepayment, closingBalance |-> closing],
       fixedBase |-> IF recompute /\ ~crec THEN newBase ELSE s.fixedBase,
       fixedBaseAfterGrowth |-> fbag,
       computeFixed |-> IF recompute /\ crec THEN newBase ELSE s.computeFixed ]

\* faulty variant: the loop does not test the balance
LoopCondNoBalance(inp, s) == s.m <= inp.termMonths

\* for (let m = 1; m <= n && balance > 0.005; m++)
LoopCond(inp, s) == s.m <= inp.termMonths /\ s.balance > Cent \div 2

\* the loop state after the body ran without throwing
AfterMonth(inp, s) ==
  LET c == Month(inp, s)
  IN [ m |-> s.m + 1, balance |-> c.row.closingBalance,
       rows |-> Append(s.rows, c.row),
       interestTotal |-> s.interestTotal + c.row.interest,
       baseTotal |-> s.baseTotal + c.row.basePayment,
       insuranceTotal |-> s.insuranceTotal + c.row.insurance,
       adminTotal |-> s.adminTotal + c.row.adminCommission,
       fixedBase |-> c.fixedBase,
       fixedBaseAfterGrowth |-> c.fixedBaseAfterGrowth,
       computeFixed |-> c.computeFixed ]

\* the loop state on entry
LoopStart(inp) ==
  [ m |-> 1, balance |-> inp.principal, rows |-> <<>>,
    interestTotal |-> 0, baseTotal |-> 0, insuranceTotal |-> 0,
    adminTotal |-> 0,
    fixedBase |-> IF inp.product = "hipoteca_creciente" THEN Null
                  ELSE buildFixedBasePayment(inp),
    fixedBaseAfterGrowth |-> Null, computeFixed |-> Null ]

\* totals and the returned record
Totals(inp, s) ==
  LET rounding == inp.roundingMode
      P0 == inp.principal
      downPayment == round2(inp.propertyValue - P0, rounding)
      openingCommission ==
        round2(MulDiv(P0, inp.costs.openingCommissionPct, BpDen), rounding)
  IN [ interestTotal |-> round2(s.interestTotal, rounding),
       principalTotal |-> round2(P0, rounding),
       baseTotal |-> round2(s.baseTotal, rounding),
       insuranceTotal |-> round2(s.insuranceTotal, rounding),
       adminCommissionTotal |-> round2(s.adminTotal, rounding),
       grandTotal |-> round2(s.baseTotal + s.insuranceTotal + s.adminTotal,
                             rounding),
       pagoPorMil |-> IF Len(s.rows) > 0
                      THEN round2(MulDiv(s.rows[1].basePayment, 1000 * Unit,
                                         P0), "round")
                      ELSE 0,
       initialDisbursementRequired |->
         round2(downPayment + inp.costs.notaryCost + inp.costs.appraisalCost
                + inp.costs.preoriginationCost + openingCommission, rounding),
       openingCommission |-> openingCommission,
       downPayment |-> downPayment ]

\* computeMortgage as a function of its input: the loop run to its end
RECURSIVE RunLoop(_, _)
RunLoop(inp, s) ==
  IF ~LoopCond(inp, s) THEN [threw |-> FALSE, s |-> s]
  ELSE IF Month(inp, s).throws THEN [threw |-> TRUE, s |-> s]
  ELSE RunLoop(inp, AfterMonth(inp, s))

computeMortgage(inp) ==
  LET r == RunLoop(inp, LoopStart(inp))
  IN IF r.threw THEN [threw |-> TRUE, month |-> r.s.m]
     ELSE [threw |-> FALSE, input |-> inp, rows |-> r.s.rows,
           totals |-> Totals(inp, r.s)]

\* the loop state held in the variables
Cur == [ m |-> m, balance |-> balance, rows |-> rows,
         interestTotal |-> interestTotal, baseTotal |-> baseTotal,
         insuranceTotal |-> insuranceTotal, adminTotal |-> adminTotal,
         fixedBase |-> fixedBase,
         fixedBaseAfterGrowth |-> fixedBaseAfterGrowth,
         computeFixed |-> computeFixed ]

SetLoop(s) ==
  /\ m' = s.m
  /\ balance' = s.balance
  /\ rows' = s.rows
  /\ interestTotal' = s.interestTotal
  /\ baseTotal' = s.baseTotal
  /\ insuranceTotal' = s.insuranceTotal
  /\ adminTotal' = s.adminTotal
  /\ fixedBase' = s.fixedBase
  /\ fixedBaseAfterGrowth' = s.fixedBaseAfterGrowth
  /\ computeFixed' = s.computeFixed

MortgageInit ==
  /\ fpErr \in FpPatterns
  /\ input \in MortgageInputs
  /\ LET s == LoopStart(input) IN
       /\ m = s.m
       /\ balance = s.balance
       /\ rows = s.rows
       /\ interestTotal = 0 /\ baseTotal = 0
       /\ insuranceTotal = 0 /\ adminTotal = 0
       /\ fixedBase = s.fixedBase
       /\ fixedBaseAfterGrowth = Null
       /\ computeFixed = Null
  /\ status = "running"
  /\ errMonth = Null
  /\ result = <<>>
  \* no computeSchedule call
  /\ engine = "none" /\ cinput = Null /\ currentBalance = 0 /\ monthIndex = 0
  /\ schedule = <<>> /\ cstatus = "idle" /\ cerror = ""
  \* no direct call of a helper
  /\ call = NoCall /\ ret = <<>>

\* one iteration of the loop that pushes a row
MonthStep ==
  /\ status = "running"
  /\ LoopCond(input, Cur)
  /\ ~Month(input, Cur).throws
  /\ SetLoop(AfterMonth(input, Cur))
  /\ UNCHANGED <<input, status, errMonth, result>>
  /\ UNCHANGED <<fpErr, cvars, fvars>>

\* one iteration of the loop that throws 'Base payment too small at month m'
MonthThrow ==
  /\ status = "running"
  /\ LoopCond(input, Cur)
  /\ Month(input, Cur).throws
  /\ status' = "error"
  /\ errMonth' = m
  /\ UNCHANGED <<input, m, balance, rows, interestTotal, baseTotal,
                 insuranceTotal, adminTotal, fixedBase, fixedBaseAfterGrowth,
                 computeFixed, result>>
  /\ UNCHANGED <<fpErr, cvars, fvars>>

\* the loop ends: totals are computed and the result returned
Return ==
  /\ status = "running"
  /\ ~LoopCond(input, Cur)
  /\ status' = "done"
  /\ result' = <<[input |-> input, rows |-> rows,
                  totals |-> Totals(input, Cur)]>>
  /\ UNCHANGED <<input, m, balance, rows, interestTotal, baseTotal,
                 insuranceTotal, adminTotal, fixedBase, fixedBaseAfterGrowth,
                 computeFixed, errMonth>>
  /\ UNCHANGED <<fpErr, cvars, fvars>>

MortgageNext == MonthStep \/ MonthThrow \/ Return

vars == <<fpErr, input, m, balance, rows, interestTotal, baseTotal, insuranceTotal,
          adminTotal, fixedBase, fixedBaseAfterGrowth, computeFixed, status,
          errMonth, result, engine, cinput, currentBalance, monthIndex,
          schedule, cstatus, cerror, call, ret>>

\* computeMortgage on every input of MortgageInputs
Spec == MortgageInit /\ [][MortgageNext]_vars

\* ------------------------------------------------------------------------
\* computeSchedule (revolving credit): shared helpers
\* ------------------------------------------------------------------------
MAX_CYCLES == 600
EPSILON == Cent              \* 0.01
DaysPerYear == 365
RunawayCycles == 12          \* the runaway guard looks past this many cycles
DefaultTargetMonths == 26

InterestMethods ==
  {"averageDailyBalance", "simpleMonthlyAPR", "dailyCompounding"}

\* Math.round(amount * 100) / 100
roundToCents(amount) ==
  LET k == amount \div Cent
  IN (IF amount % Cent = Cent \div 2 /\ Inexact(k)
      THEN k
      ELSE (amount + Cent \div 2) \div Cent) * Cent

\* the switch of computeCycleInterest has no case for the method
UnknownMethod(method) == method \notin InterestMethods

\* faulty variant: averageDailyBalance accrues by the days of the cycle
computeCycleInterestByDays(bal, apr, method, cycleDays) ==
  IF method = "dailyCompounding"
  THEN MulDiv(bal, PowFix(apr, DaysPerYear * BpDen, cycleDays) - PowScale,
              PowScale)
  ELSE IF method = "averageDailyBalance"
  THEN MulDiv(bal, apr * cycleDays, DaysPerYear * BpDen)
  ELSE MulDiv(bal, apr, MonthsPerYear * BpDen)

\* computeCycleInterest for a known method; apr in basis points
computeCycleInterest(bal, apr, method, cycleDays) ==
  IF method = "dailyCompounding"
  THEN MulDiv(bal, PowFix(apr, DaysPerYear * BpDen, cycleDays) - PowScale,
              PowScale)
  ELSE MulDiv(bal, apr, MonthsPerYear * BpDen)

\* ------------------------------------------------------------------------
\* computeSchedule, minimum-payment form
\* ------------------------------------------------------------------------
\* faulty variant: percentOnly adds interest and fees as well
computeMinimumPaymentAlwaysAdds(inp, statementBalance, interest, fees) ==
  LET pct == MulDiv(statementBalance, inp.minPaymentPercent, BpDen)
  IN Max(0, roundToCents(Max(inp.minPaymentFloor, pct) + interest + fees))

\* max(floor, percent * balance) [+ interest + fees], rounded, not negative;
\* every formula other than percentOnly takes the second branch
computeMinimumPayment(inp, statementBalance, interest, fees) ==
  LET pct == MulDiv(statementBalance, inp.minPaymentPercent, BpDen)
      payment == IF inp.minPaymentFormula = "percentOnly"
                 THEN Max(inp.minPaymentFloor, pct)
                 ELSE Max(inp.minPaymentFloor, pct) + interest + fees
  IN Max(0, roundToCents(payment))

\* while (currentBalance > EPSILON && monthIndex < MAX_CYCLES)
WhileCond(bal, idx) == bal > EPSILON /\ idx < MAX_CYCLES

\* faulty variant: the guard already fires at the twelfth cycle
RunawayBreakEarly(endingBalance, startingBalance, idx) ==
  endingBalance > startingBalance /\ idx >= RunawayCycles

\* if (endingBalance > startingBalance && monthIndex > 12) break
RunawayBreak(endingBalance, startingBalance, idx) ==
  endingBalance > startingBalance /\ idx > RunawayCycles

\* one pass through the loop body: the row pushed and the new balance
CycleBody(inp, startingBalance, idx) ==
  LET balanceWithCharges == startingBalance + inp.newChargesPerCycle
      interestAccrued == computeCycleInterest(balanceWithCharges, inp.apr,
                           inp.interestMethod, inp.cycleDays)
      fees == inp.feesPerCycle
      payment == computeMinimumPayment(inp, balanceWithCharges,
                                       interestAccrued, fees)
      principalPaid == payment - interestAccrued - fees
      endingBalance == roundToCents(balanceWithCharges + interestAccrued
                                    + fees - payment)
  IN [row |-> [monthIndex |-> idx,
               startingBalance |-> roundToCents(startingBalance),
               interestAccrued |-> roundToCents(interestAccrued),
               fees |-> roundToCents(fees),
               payment |-> roundToCents(payment),
               principalPaid |-> roundToCents(principalPaid),
               endingBalance |-> roundToCents(endingBalance),
               onlyInterestCovered |-> principalPaid <= 0],
      endingBalance |-> endingBalance,
      break |-> RunawayBreak(endingBalance, startingBalance, idx + 1)]

\* ------------------------------------------------------------------------
\* computeSchedule, target-months form
\* ------------------------------------------------------------------------
\* const targetMonths = input.targetMonths || 26  (0 stands for undefined)
TargetMonths(inp) ==
  IF inp.targetMonths = 0 THEN DefaultTargetMonths ELSE inp.targetMonths

\* percent * balance [+ interest + fees], rounded, not negative (no floor)
computeMinimumPaymentTarget(inp, statementBalance, interest, fees) ==
  LET pct == MulDiv(statementBalance, inp.minPaymentPercent, BpDen)
      payment == IF inp.minPaymentFormula = "percentOnly"
                 THEN pct
                 ELSE pct + interest + fees
  IN Max(0, roundToCents(payment))

\* faulty variant: the balance is spread over one month too many
calculateRequiredPaymentOneMore(remainingBalance, apr, remainingMonths) ==
  IF remainingMonths <= 0 THEN remainingBalance
  ELSE LET estimatedInterest ==
             MulDiv(remainingBalance, apr * remainingMonths,
                    2 * MonthsPerYear * BpDen)
       IN roundToCents((remainingBalance + estimatedInterest)
                       \div (remainingMonths + 1))

calculateRequiredPayment(remainingBalance, apr, remainingMonths) ==
  IF remainingMonths <= 0 THEN remainingBalance
  ELSE LET estimatedInterest ==
             MulDiv(remainingBalance, apr * remainingMonths,
                    2 * MonthsPerYear * BpDen)
       IN roundToCents((remainingBalance + estimatedInterest)
                       \div remainingMonths)

\* basePayment + estimatedInterestPerMonth
initialOptimalPayment(inp) ==
  inp.principal \div TargetMonths(inp)
    + MulDiv(inp.principal, inp.apr, MonthsPerYear * BpDen)

\* firstMinPayment = computeMinimumPayment(input, principal, 0, feesPerCycle)
firstPaymentThreshold(inp) ==
  computeMinimumPaymentTarget(inp, inp.principal, 0, inp.feesPerCycle)

\* while (currentBalance > 0 && monthIndex < MAX_CYCLES)
TargetWhileCond(bal, idx) == bal > 0 /\ idx < MAX_CYCLES

\* endingBalance <= firstPaymentThreshold * 1.1 || endingBalance <= 0.01
isFinalPayment(inp, endingBalance) ==
  \/ endingBalance * 10 <= firstPaymentThreshold(inp) * 11
  \/ endingBalance <= EPSILON

\* the three break statements at the end of the loop body
TargetBreak(inp, endingBalance, startingBalance, idx) ==
  \/ /\ endingBalance * 100 <= firstPaymentThreshold(inp) * 102
     /\ (idx >= TargetMonths(inp) \/ TargetMonths(inp) > RunawayCycles)
  \/ endingBalance <= EPSILON
  \/ (endingBalance > startingBalance /\ idx > RunawayCycles)

\* faulty variant: the catch-up payment is not taken into account
TargetPaymentNoCatchUp(inp, idx, minPayment, required) ==
  IF idx < TargetMonths(inp)
  THEN Max(minPayment, initialOptimalPayment(inp))
  ELSE minPayment

\* the payment of a cycle: within the target months the optimal payment,
\* raised to the required payment when that is larger; the minimum after
TargetPayment(inp, idx, minPayment, required) ==
  IF idx < TargetMonths(inp)
  THEN LET payment == Max(minPayment, initialOptimalPayment(inp))
       IN IF required > payment THEN required ELSE payment
  ELSE minPayment

TargetCycleBody(inp, startingBalance, idx) ==
  LET balanceWithCharges == startingBalance + inp.newChargesPerCycle
      interestAccrued == computeCycleInterest(balanceWithCharges, inp.apr,
                           inp.interestMethod, inp.cycleDays)
      fees == inp.feesPerCycle
      minPayment == computeMinimumPaymentTarget(inp, balanceWithCharges,
                                                interestAccrued, fees)
      required == calculateRequiredPayment(
                    balanceWithCharges + interestAccrued + fees, inp.apr,
                    TargetMonths(inp) - idx)
      payment == TargetPayment(inp, idx, minPayment, required)
      principalPaid == payment - interestAccrued - fees
      endingBalance == roundToCents(balanceWithCharges + interestAccrued
                                    + fees - payment)
      final == isFinalPayment(inp, endingBalance)
      remainingBalance == balanceWithCharges + fees
  IN [row |-> [monthIndex |-> idx,
               startingBalance |-> roundToCents(startingBalance),
               interestAccrued |-> IF final THEN 0
                                   ELSE roundToCents(interestAccrued),
               fees |-> roundToCents(fees),
               payment |-> IF final THEN roundToCents(remainingBalance)
                           ELSE payment,
               principalPaid |-> IF final
                                 THEN roundToCents(remainingBalance - fees)
                                 ELSE roundToCents(principalPaid),
               endingBalance |-> IF final THEN 0
                                 ELSE roundToCents(endingBalance),
               onlyInterestCovered |-> ~final /\ principalPaid <= 0],
      endingBalance |-> endingBalance,
      break |-> TargetBreak(inp, endingBalance, startingBalance, idx + 1)]

\* ------------------------------------------------------------------------
\* computeSchedule: inputs
\* ------------------------------------------------------------------------
CycleDays == 30

\* the identifiers of the types and one identifier outside them
MethodIds == InterestMethods \cup {"other"}
FormulaIds == {"percentOnly", "percentPlusInterestAndFees", "other"}

CardInput(p, a, pct, fl, fe, ch, im, fo, tm) ==
  [principal |-> p, apr |-> a, cycleDays |-> CycleDays,
   minPaymentPercent |-> pct, minPaymentFloor |-> fl, feesPerCycle |-> fe,
   newChargesPerCycle |-> ch, interestMethod |-> im,
   minPaymentFormula |-> fo, targetMonths |-> tm]

\* a floor of 200.00 pays these off within a few cycles
PayingInputs ==
  { CardInput(p, a, 500, 2000000, fe, 0, im, fo, 0) :
      p \in {10000000, 3000000, 1000050, Cent}, a \in {6000, 2400},
      fe \in {0, 350000}, im \in MethodIds, fo \in FormulaIds }

\* new charges above the payment: the balance grows from the first cycle
GrowingInputs ==
  { CardInput(3000000, a, pct, 0, 0, 1000000, im, "percentOnly", 0) :
      a \in {6000, 2400}, pct \in {100, 500}, im \in InterestMethods }

\* no floor: the payment equals the interest (the balance stays), or the
\* percent part rounds to nothing before the balance reaches EPSILON
LingeringInputs ==
  { CardInput(10000000, 6000, 500, 0, 0, 0, "simpleMonthlyAPR", fo, 0) :
      fo \in {"percentOnly", "percentPlusInterestAndFees"} }

MinimumInputs == PayingInputs \cup GrowingInputs \cup LingeringInputs

\* few target months, new charges and fees: the payment has to catch up
CatchUpInputs ==
  { CardInput(3000000, 6000, 600, 0, fe, ch, "simpleMonthlyAPR",
              "percentOnly", tm) :
      fe \in {0, 350000}, ch \in {0, 1000000}, tm \in 1..3 }

TargetInputs ==
  { CardInput(p, a, pct, 0, 0, 0, im, fo, tm) :
      p \in {10000000, 3000000}, a \in {6774, 2400}, pct \in {600, 700},
      im \in MethodIds, fo \in FormulaIds,
      tm \in {0, 3, 6, RunawayCycles, RunawayCycles + 1} }
  \cup CatchUpInputs

\* ------------------------------------------------------------------------
\* computeSchedule: actions
\* ------------------------------------------------------------------------
CardInit ==
  /\ fpErr \in FpPatterns
  /\ \/ engine = "minimum" /\ cinput \in MinimumInputs
     \/ engine = "target" /\ cinput \in TargetInputs
  /\ currentBalance = cinput.principal
  /\ monthIndex = 0
  /\ schedule = <<>>
  /\ cstatus = "running"
  /\ cerror = ""
  \* no computeMortgage call
  /\ input = Null /\ m = 0 /\ balance = 0 /\ rows = <<>>
  /\ interestTotal = 0 /\ baseTotal = 0 /\ insuranceTotal = 0
  /\ adminTotal = 0 /\ fixedBase = Null /\ fixedBaseAfterGrowth = Null
  /\ computeFixed = Null /\ status = "idle" /\ errMonth = Null
  /\ result = <<>>
  \* no direct call of a helper
  /\ call = NoCall /\ ret = <<>>

\* one row of the minimum-payment loop, with the runaway break
MinimumCycle ==
  /\ engine = "minimum" /\ cstatus = "running"
  /\ WhileCond(currentBalance, monthIndex)
  /\ ~UnknownMethod(cinput.interestMethod)
  /\ LET c == CycleBody(cinput, currentBalance, monthIndex)
     IN /\ schedule' = Append(schedule, c.row)
        /\ currentBalance' = c.endingBalance
        /\ monthIndex' = monthIndex + 1
        /\ cstatus' = IF c.break THEN "done" ELSE "running"
  /\ UNCHANGED <<engine, cinput, cerror, mvars, fvars>>

\* one row of the target-months loop, with its three breaks
TargetCycle ==
  /\ engine = "target" /\ cstatus = "running"
  /\ TargetWhileCond(currentBalance, monthIndex)
  /\ ~UnknownMethod(cinput.interestMethod)
  /\ LET c == TargetCycleBody(cinput, currentBalance, monthIndex)
     IN /\ schedule' = Append(schedule, c.row)
        /\ currentBalance' = c.endingBalance
        /\ monthIndex' = monthIndex + 1
        /\ cstatus' = IF c.break THEN "done" ELSE "running"
  /\ UNCHANGED <<engine, cinput, cerror, mvars, fvars>>

\* computeCycleInterest throws inside the loop body: nothing is returned
CycleThrow ==
  /\ cstatus = "running"
  /\ \/ engine = "minimum" /\ WhileCond(currentBalance, monthIndex)
     \/ engine = "target" /\ TargetWhileCond(currentBalance, monthIndex)
  /\ UnknownMethod(cinput.interestMethod)
  /\ cstatus' = "error"
  /\ cerror' = "Unknown interest method"
  /\ UNCHANGED <<engine, cinput, currentBalance, monthIndex, schedule, mvars, fvars>>

\* the loop condition fails: return schedule
ScheduleReturn ==
  /\ cstatus = "running"
  /\ \/ engine = "minimum" /\ ~WhileCond(currentBalance, monthIndex)
     \/ engine = "target" /\ ~TargetWhileCond(currentBalance, monthIndex)
  /\ cstatus' = "done"
  /\ UNCHANGED <<engine, cinput, currentBalance, monthIndex, schedule, cerror,
                 mvars, fvars>>

CardNext == MinimumCycle \/ TargetCycle \/ CycleThrow \/ ScheduleReturn

\* computeSchedule, in both forms, on every input of the two input sets
SpecCard == CardInit /\ [][CardNext]_vars

\* ------------------------------------------------------------------------
\* The exported helpers called directly: round2, roundToCents,
\* computeCycleInterest and computeMinimumPayment (both copies)
\* ------------------------------------------------------------------------
MaxCents == 40

\* amounts of whole cents and amounts between two cents (a half included)
Amounts ==
  { k * Cent + d : k \in 0..MaxCents, d \in {0, 1, Cent \div 2, Cent - 1} }

CycleLengths == {28, 30, 31}

NoArgs ==
  [fn |-> "none", amount |-> 0, mode |-> "round", balance |-> 0, apr |-> 0,
   method |-> "", cycleDays |-> 0,
   input |-> CardInput(0, 0, 0, 0, 0, 0, "simpleMonthlyAPR", "percentOnly", 0),
   statementBalance |-> 0, interest |-> 0, fees |-> 0,
   bands |-> <<>>, month |-> 0]

Round2Calls ==
  { [NoArgs EXCEPT !.fn = "round2", !.amount = v, !.mode = md] :
      v \in Amounts, md \in RoundingModes }

RoundToCentsCalls ==
  { [NoArgs EXCEPT !.fn = "roundToCents", !.amount = v] : v \in Amounts }

CycleInterestCalls ==
  { [NoArgs EXCEPT !.fn = "computeCycleInterest", !.balance = b, !.apr = a,
                   !.method = im, !.cycleDays = cd] :
      b \in {0, 1234500, 100000000}, a \in {0, 2400, 6000},
      im \in MethodIds, cd \in CycleLengths }

MinimumPaymentCalls ==
  { [NoArgs EXCEPT !.fn = fn,
                   !.input = CardInput(0, 6000, pct, fl, 0, 0,
                                       "simpleMonthlyAPR", fo, 0),
                   !.statementBalance = b, !.interest = i, !.fees = fe] :
      fn \in {"computeMinimumPayment", "computeMinimumPaymentTarget"},
      pct \in {125, 500}, fl \in {0, 2000000}, fo \in FormulaIds,
      b \in {0 - 1000000, 0, 100100, 100000000},
      i \in {0, 123400, 5000000}, fe \in {0, 350000} }

\* band lists with a gap before the first band, and with overlapping bands
RateCalls ==
  { [NoArgs EXCEPT !.fn = "getMonthlyRateForMonth", !.bands = bs,
                   !.month = mo] :
      bs \in BandLists \cup { <<Band(1, 3, 1200), Band(2, Null, 2400)>>,
                              <<Band(3, Null, 600), Band(1, 3, 1200)>> },
      mo \in 0..(MaxTerm + 1) }

Returned(v) == <<[threw |-> FALSE, value |-> v]>>
Threw == <<[threw |-> TRUE, value |-> 0]>>

FnInit ==
  /\ fpErr \in FpPatterns
  /\ call \in Round2Calls \cup RoundToCentsCalls \cup CycleInterestCalls
                \cup MinimumPaymentCalls \cup RateCalls
  /\ ret = <<>>
  \* no computeMortgage call
  /\ input = Null /\ m = 0 /\ balance = 0 /\ rows = <<>>
  /\ interestTotal = 0 /\ baseTotal = 0 /\ insuranceTotal = 0
  /\ adminTotal = 0 /\ fixedBase = Null /\ fixedBaseAfterGrowth = Null
  /\ computeFixed = Null /\ status = "idle" /\ errMonth = Null
  /\ result = <<>>
  \* no computeSchedule call
  /\ engine = "none" /\ cinput = Null /\ currentBalance = 0 /\ monthIndex = 0
  /\ schedule = <<>> /\ cstatus = "idle" /\ cerror = ""

Round2Call ==
  /\ call.fn = "round2" /\ ret = <<>>
  /\ ret' = Returned(round2(call.amount, call.mode))
  /\ UNCHANGED <<call, mvars, cvars>>

RoundToCentsCall ==
  /\ call.fn = "roundToCents" /\ ret = <<>>
  /\ ret' = Returned(roundToCents(call.amount))
  /\ UNCHANGED <<call, mvars, cvars>>

\* computeCycleInterest returns, or throws at the default of its switch
CycleInterestCall ==
  /\ call.fn = "computeCycleInterest" /\ ret = <<>>
  /\ ret' = IF UnknownMethod(call.method) THEN Threw
            ELSE Returned(computeCycleInterest(call.balance, call.apr,
                                               call.method, call.cycleDays))
  /\ UNCHANGED <<call, mvars, cvars>>

MinimumPaymentCall ==
  /\ call.fn = "computeMinimumPayment" /\ ret = <<>>
  /\ ret' = Returned(computeMinimumPayment(call.input, call.statementBalance,
                                           call.interest, call.fees))
  /\ UNCHANGED <<call, mvars, cvars>>

MinimumPaymentTargetCall ==
  /\ call.fn = "computeMinimumPaymentTarget" /\ ret = <<>>
  /\ ret' = Returned(computeMinimumPaymentTarget(call.input,
                       call.statementBalance, call.interest, call.fees))
  /\ UNCHANGED <<call, mvars, cvars>>

\* the annual rate of the band found; the division by 12 is MonthlyOf
RateCall ==
  /\ call.fn = "getMonthlyRateForMonth" /\ ret = <<>>
  /\ ret' = Returned(getMonthlyRateForMonth(call.bands, call.month))
  /\ UNCHANGED <<call, mvars, cvars>>

FnNext ==
  \/ Round2Call \/ RoundToCentsCall \/ CycleInterestCall
  \/ MinimumPaymentCall \/ MinimumPaymentTargetCall \/ RateCall

\* one direct call of a helper on every argument list of the call sets
SpecFn == FnInit /\ [][FnNext]_vars

\* ------------------------------------------------------------------------
\* Properties of computeMortgage
\* ------------------------------------------------------------------------
Rate(mm) == getMonthlyRateForMonth(input.interest.bands, mm)
Rounded(v) == round2(v, input.roundingMode)

\* the row took the last-installment adjustment (principal = balance)
FinalAdjusted(row) == row.principal = Rounded(row.openingBalance)

\* some row before row j applied a prepayment under reduce_installment
Reinstalled(j) ==
  /\ input.prepaymentMode = "reduce_installment"
  /\ \E i \in 1..(j - 1) : rows[i].prepayment > 0

\* C1: every row's closingBalance is round2(openingBalance - principal -
\* prepayment) in the configured rounding mode, and it is never negative.
C1_ClosingNeverNegative ==
  \A i \in 1..Len(rows) :
    /\ rows[i].closingBalance =
         Rounded(rows[i].openingBalance - rows[i].principal
                 - rows[i].prepayment)
    /\ rows[i].closingBalance >= 0

\* C2: after a positive prepayment in month i < termMonths under
\* reduce_installment, every later month (up to the next prepayment) pays the
\* level annuity on month i's closing balance over the termMonths - i months
\* left, whatever the product; a last-installment row may differ.
C2_ReinstalledBase ==
  input.prepaymentMode = "reduce_installment" =>
    \A i \in 1..Len(rows) : \A j \in (i + 1)..Len(rows) :
      ( /\ rows[i].prepayment > 0
        /\ i < input.termMonths
        /\ \A k \in (i + 1)..(j - 1) : rows[k].prepayment = 0 )
      => \/ rows[j].basePayment =
              Rounded(annuity(rows[i].closingBalance, Rate(i + 1),
                              input.termMonths - i))
         \/ FinalAdjusted(rows[j])

\* C3: a month whose resolved base payment is below the interest accrued on
\* its opening balance makes the call throw, naming that month, and nothing
\* is returned; no row ever has a negative principal.
C3_State ==
  /\ status = "error" =>
       /\ result = <<>>
       /\ errMonth = m
       /\ ResolveBase(input, Cur) < AccruedInterest(input, Cur)
  /\ status = "done" => Len(result) = 1 /\ result[1].rows = rows
  /\ \A i \in 1..Len(rows) : rows[i].principal >= 0

C3_Step ==
  ( /\ status = "running"
    /\ LoopCond(input, Cur)
    /\ ResolveBase(input, Cur) < AccruedInterest(input, Cur) )
  => (status' = "error" /\ errMonth' = m /\ result' = <<>> /\ rows' = rows)

C3_InsufficientPaymentThrows == [](C3_State) /\ [][C3_Step]_vars

C3_Witness ==
  status = "error" /\ errMonth > 1 /\ Len(rows) = errMonth - 1

\* the same call without the prepayment added last
WithoutLastPrepayment ==
  computeMortgage([input EXCEPT !.prepayments =
                     SubSeq(input.prepayments, 1, Len(input.prepayments) - 1)])

NoMoreRowsNorInterest ==
  LET ref == WithoutLastPrepayment
  IN ~ref.threw =>
       /\ Len(result[1].rows) <= Len(ref.rows)
       /\ result[1].totals.interestTotal <= ref.totals.interestTotal

\* C5: under reduce_term, the run with a positive prepayment added has no
\* more rows and no larger totals.interestTotal than the run without it.
C5_PrepaymentMonotone ==
  ( /\ status = "done"
    /\ input.prepaymentMode = "reduce_term"
    /\ input.prepayments # <<>> )
  => NoMoreRowsNorInterest

\* first month after the growth window
FirstFixedMonth == input.growth.increaseEndYear * MonthsPerYear + 1

C8_AdminCommissionTotal ==
  status = "done" =>
    result[1].totals.adminCommissionTotal =
      Rounded(MulDiv(input.principal,
                     input.costs.adminDeferredMonthlyPct * Len(rows), PpmDen))

\* C9: at most termMonths rows, numbered 1, 2, ..., k; the first opens at the
\* principal, each later one at the closing balance of the row before it, and
\* no row opens at a balance of 0.005 or less.
C9_RowsBoundedAndContinuous ==
  /\ Len(rows) <= input.termMonths
  /\ \A i \in 1..Len(rows) :
       /\ rows[i].month = i
       /\ rows[i].openingBalance > Cent \div 2
       /\ rows[i].openingBalance =
            IF i = 1 THEN input.principal ELSE rows[i - 1].closingBalance

C9_Witness ==
  /\ status = "done"
  /\ Len(rows) >= 2
  /\ Len(rows) < input.termMonths
  /\ rows[Len(rows)].closingBalance <= Cent \div 2

\* ------------------------------------------------------------------------
\* Properties of computeSchedule
\* ------------------------------------------------------------------------
LastRow == schedule[Len(schedule)]

\* the row's payment was snapped to clear the balance
Snapped(row) == row.interestAccrued = 0 /\ row.endingBalance = 0

\* C4: in the target-months form a snapped row (recorded interest 0, ending
\* balance forced to 0) is the last row of the schedule.
C4_SnappedRowIsLast ==
  engine = "target" =>
    \A i \in 1..(Len(schedule) - 1) : ~Snapped(schedule[i])

\* C7: with a minimum-payment formula that is none of the known identifiers
\* the engine produces no row and does not return a schedule.
C7_UnknownFormulaFails ==
  cinput.minPaymentFormula \notin {"percentOnly", "percentPlusInterestAndFees"}
    => (schedule = <<>> /\ cstatus # "done")

\* C10: the minimum-payment form returns at most 600 rows; a row ending at
\* or below EPSILON is the last one; a row past cycle 12 that ends above its
\* starting balance is the last one and ends the call; and the call ends
\* short of 600 rows above EPSILON only through that guard, so never before
\* the 13th row.
C10_MinimumLoopEnds ==
  engine = "minimum" =>
    /\ Len(schedule) <= MAX_CYCLES
    /\ \A i \in 1..(Len(schedule) - 1) :
         /\ schedule[i].endingBalance > EPSILON
         /\ ~( /\ i > RunawayCycles
               /\ schedule[i].endingBalance > schedule[i].startingBalance )
    /\ ( /\ Len(schedule) > RunawayCycles
         /\ LastRow.endingBalance > LastRow.startingBalance )
       => cstatus = "done"
    /\ ( /\ cstatus = "done"
         /\ Len(schedule) > 0
         /\ Len(schedule) < MAX_CYCLES
         /\ LastRow.endingBalance > EPSILON )
       => ( /\ Len(schedule) > RunawayCycles
            /\ LastRow.endingBalance > LastRow.startingBalance )

C10_Witness ==
  /\ engine = "minimum"
  /\ cstatus = "done"
  /\ Len(schedule) = RunawayCycles + 1
  /\ \A i \in 1..Len(schedule) :
       schedule[i].endingBalance > schedule[i].startingBalance

\* C11: for a product other than hipoteca_creciente, every row not preceded
\* by a reduce-installment prepayment pays, as base payment, the annuity on
\* the principal at the rate of month 1 over the full term, rounded to cents,
\* whatever the later rate bands; a last-installment row may differ.
C11_LevelBasePayment ==
  input.product # "hipoteca_creciente" =>
    \A j \in 1..Len(rows) :
      ~Reinstalled(j) =>
        \/ rows[j].basePayment =
             Rounded(annuity(input.principal, Rate(1), input.termMonths))
        \/ FinalAdjusted(rows[j])

C11_Witness ==
  /\ status = "done"
  /\ input.product # "hipoteca_creciente"
  /\ Len(rows) >= 3
  /\ ~Reinstalled(Len(rows))
  /\ Rate(2) # Rate(1)
  /\ ~FinalAdjusted(rows[2])
  /\ rows[2].basePayment =
       Rounded(annuity(input.principal, Rate(1), input.termMonths))

\* C12: in every row of a revolving schedule, onlyInterestCovered is true
\* exactly when the row's principalPaid is at most 0.
C12_FlagMatchesPrincipalPaid ==
  \A i \in 1..Len(schedule) :
    schedule[i].onlyInterestCovered <=> schedule[i].principalPaid <= 0

PercentOfBalance ==
  MulDiv(call.statementBalance, call.input.minPaymentPercent, BpDen)

\* C15: with the percentOnly formula computeMinimumPayment returns, whatever
\* the interest and fees arguments, max(floor, percent * balance) in the copy
\* with a floor and percent * balance in the target-months copy, rounded to
\* cents and never negative.
C15_PercentOnlyIgnoresInterestAndFees ==
  (ret # <<>> /\ call.input.minPaymentFormula = "percentOnly") =>
    /\ call.fn = "computeMinimumPayment" =>
         /\ ret[1].value =
              Max(0, roundToCents(Max(call.input.minPaymentFloor,
                                      PercentOfBalance)))
         /\ ret[1].value = computeMinimumPayment(call.input,
                             call.statementBalance, 0, 0)
    /\ call.fn = "computeMinimumPaymentTarget" =>
         /\ ret[1].value = Max(0, roundToCents(PercentOfBalance))
         /\ ret[1].value = computeMinimumPaymentTarget(call.input,
                             call.statementBalance, 0, 0)
    /\ call.fn \in {"computeMinimumPayment", "computeMinimumPaymentTarget"} =>
         ret[1].value >= 0 /\ ret[1].value % Cent = 0

C15_Witness ==
  /\ ret # <<>>
  /\ call.fn = "computeMinimumPayment"
  /\ call.input.minPaymentFormula = "percentOnly"
  /\ call.interest > 0 /\ call.fees > 0
  /\ call.input.minPaymentFloor > 0
  /\ PercentOfBalance > call.input.minPaymentFloor
  /\ ret[1].value = roundToCents(PercentOfBalance)

C17_RoundingIdempotentAndOrdered ==
  ret # <<>> =>
    /\ call.fn = "round2" =>
         /\ call.amount % Cent = 0 => ret[1].value = call.amount
         /\ round2(ret[1].value, call.mode) = ret[1].value
         /\ call.mode = "floor" => ret[1].value <= call.amount
         /\ call.mode = "ceil" => ret[1].value >= call.amount
         /\ LET gap == round2(call.amount, "ceil")
                         - round2(call.amount, "floor")
            IN 0 <= gap /\ gap <= Cent
    /\ call.fn = "roundToCents" =>
         ret[1].value = round2(call.amount, "round")

\* the same input with no prepayment
WithoutPrepayments == [input EXCEPT !.prepayments = <<>>]

\* C18: when computeMortgage succeeds on an input without prepayments, it
\* also succeeds (no 'Base payment too small') on the same input with
\* positive prepayments under reduce_installment, for the fixed products and
\* for hipoteca_creciente alike.
C18_PrepaymentKeepsSuccess ==
  ( /\ status = "error"
    /\ input.prepaymentMode = "reduce_installment"
    /\ input.prepayments # <<>> )
  => computeMortgage(WithoutPrepayments).threw

\* C19: in both forms of computeSchedule the first row starts at the input
\* principal and every later row starts at the endingBalance recorded in the
\* row before it.
C19_ScheduleContinuous ==
  \A i \in 1..Len(schedule) :
    IF i = 1 THEN schedule[i].startingBalance = cinput.principal
    ELSE schedule[i].startingBalance = schedule[i - 1].endingBalance

\* the principal computed for the month about to run exceeds its opening
\* balance
PrincipalExceedsBalance ==
  /\ status = "running"
  /\ LoopCond(input, Cur)
  /\ ResolveBase(input, Cur) - AccruedInterest(input, Cur) > balance

\* C20: a month whose computed principal would exceed the opening balance
\* pushes a row whose principal is the opening balance, whose base payment is
\* its interest plus that principal, whose prepayment is 0 and whose closing
\* balance is 0, and the loop pushes no row after it.
C20_Step ==
  PrincipalExceedsBalance =>
    /\ Len(rows') = Len(rows) + 1
    /\ LET row == rows'[Len(rows')]
       IN /\ row.principal = balance
          /\ row.basePayment = row.interest + row.principal
          /\ row.prepayment = 0
          /\ row.closingBalance = 0
    /\ ~LoopCond(input, [m |-> m', balance |-> balance'])

C20_LastInstallment == [][C20_Step]_vars

\* the principal and the prepayments of the rows, summed
RECURSIVE PrincipalRepaid(_)
PrincipalRepaid(rs) ==
  IF rs = <<>> THEN 0
  ELSE Head(rs).principal + Head(rs).prepayment + PrincipalRepaid(Tail(rs))

\* the amounts scheduled for the month of the row, summed
Scheduled(row) == prepayByMonth(input.prepayments, row.month)

\* C21: every row's prepayment is the sum of the amounts scheduled for its
\* month, truncated to openingBalance - principal, and the principal and the
\* prepayments of all rows together never exceed the original principal.
C21_PrepaymentClamped ==
  /\ \A j \in 1..Len(rows) :
       LET room == rows[j].openingBalance - rows[j].principal
       IN /\ rows[j].prepayment = Min(Scheduled(rows[j]), room)
          /\ rows[j].prepayment <= room
  /\ PrincipalRepaid(rows) <= input.principal

\* C22: under reduce_term, for a product other than hipoteca_creciente, the
\* rows after a prepayment keep the base payment of the rows before it (a
\* last-installment row may differ), and the schedule has no more rows than
\* the schedule of the same input without prepayments.
C22_ReduceTermKeepsBase ==
  ( /\ input.prepaymentMode = "reduce_term"
    /\ input.product # "hipoteca_creciente" )
  => /\ \A j \in 1..Len(rows) :
          \/ rows[j].basePayment = Rounded(buildFixedBasePayment(input))
          \/ FinalAdjusted(rows[j])
     /\ status = "done" =>
          LET ref == computeMortgage(WithoutPrepayments)
          IN ~ref.threw => Len(rows) <= Len(ref.rows)

C22_Witness ==
  /\ status = "done"
  /\ input.prepaymentMode = "reduce_term"
  /\ input.product # "hipoteca_creciente"
  /\ Len(rows) >= 3
  /\ rows[1].prepayment > 0
  /\ ~FinalAdjusted(rows[2])
  /\ rows[2].basePayment = rows[1].basePayment
  /\ Len(rows) < Len(computeMortgage(WithoutPrepayments).rows)

\* C23: in every row the recorded basePayment is the recorded principal plus
\* the recorded interest, in every rounding mode.
C23_BaseIsPrincipalPlusInterest ==
  \A j \in 1..Len(rows) :
    rows[j].basePayment = rows[j].principal + rows[j].interest

\* the bands of the call whose range contains its month
BandsContaining ==
  { i \in 1..Len(call.bands) :
      /\ call.month >= call.bands[i].fromMonth
      /\ call.bands[i].toMonth = Null \/ call.month <= call.bands[i].toMonth }

\* C24: getMonthlyRateForMonth returns the rate of the first band, in list
\* order, whose range [fromMonth, toMonth] (no toMonth: open-ended) contains
\* the month, and the rate of the last band of the list when none does; a
\* single band from month 1 gives its rate for every month.
C24_RateOfFirstContainingBand ==
  (ret # <<>> /\ call.fn = "getMonthlyRateForMonth") =>
    /\ BandsContaining # {} =>
         \E i \in BandsContaining :
           /\ \A k \in BandsContaining : i <= k
           /\ ret[1].value = call.bands[i].annualRate
    /\ BandsContaining = {} =>
         ret[1].value = call.bands[Len(call.bands)].annualRate
    /\ (Len(call.bands) = 1 /\ call.bands[1].fromMonth = 1
        /\ call.bands[1].toMonth = Null /\ call.month >= 1) =>
         ret[1].value = call.bands[1].annualRate

C24_Witness ==
  /\ ret # <<>>
  /\ call.fn = "getMonthlyRateForMonth"
  /\ Len(call.bands) = 2
  /\ BandsContaining = {}
  /\ ret[1].value = call.bands[2].annualRate
  /\ ret[1].value # call.bands[1].annualRate

\* what the cycle about to run owes, and its three candidate payments
Owed ==
  currentBalance + cinput.newChargesPerCycle
    + computeCycleInterest(currentBalance + cinput.newChargesPerCycle,
                           cinput.apr, cinput.interestMethod,
                           cinput.cycleDays)
    + cinput.feesPerCycle
MinimumOfCycle ==
  computeMinimumPaymentTarget(cinput,
    currentBalance + cinput.newChargesPerCycle,
    computeCycleInterest(currentBalance + cinput.newChargesPerCycle,
                         cinput.apr, cinput.interestMethod, cinput.cycleDays),
    cinput.feesPerCycle)
CatchUpOfCycle ==
  calculateRequiredPayment(Owed, cinput.apr, TargetMonths(cinput) - monthIndex)

\* a cycle of the target-months form is about to run
TargetCycleRuns ==
  /\ engine = "target" /\ cstatus = "running"
  /\ TargetWhileCond(currentBalance, monthIndex)
  /\ ~UnknownMethod(cinput.interestMethod)

\* C25: in the target-months form a cycle whose index is below targetMonths
\* takes from the balance the largest of its minimum payment, the optimal
\* payment and the catch-up payment for the months left; a cycle at or
\* beyond targetMonths takes the minimum payment.
C25_Step ==
  TargetCycleRuns =>
    LET largest == Max(Max(MinimumOfCycle, initialOptimalPayment(cinput)),
                       CatchUpOfCycle)
        applied == IF monthIndex < TargetMonths(cinput) THEN largest
                   ELSE MinimumOfCycle
    IN /\ currentBalance' = roundToCents(Owed - applied)
       /\ schedule'[Len(schedule')].endingBalance # 0 =>
            schedule'[Len(schedule')].payment = applied

C25_TargetPayment == [][C25_Step]_vars

C25_Witness ==
  /\ engine = "target"
  /\ Len(schedule) >= 2
  /\ cinput.minPaymentFormula = "percentOnly"
  /\ schedule[1].endingBalance # 0
  /\ schedule[1].payment > initialOptimalPayment(cinput)
  /\ schedule[1].payment =
       calculateRequiredPayment(
         cinput.principal + cinput.newChargesPerCycle
           + schedule[1].interestAccrued + cinput.feesPerCycle,
         cinput.apr, TargetMonths(cinput))

\* C26: in the target-months form the schedule never has more rows than
\* targetMonths (26 when the input names none).
C26_RowsWithinTarget ==
  engine = "target" => Len(schedule) <= TargetMonths(cinput)

C26_Witness ==
  /\ engine = "target" /\ cstatus = "done"
  /\ cinput.newChargesPerCycle > 0
  /\ Len(schedule) = TargetMonths(cinput)
  /\ Len(schedule) >= 3

\* C27: when computeMortgage returns, the original principal is the sum of
\* the principal of all rows, plus the sum of their prepayments, plus the
\* closing balance of the last row.
C27_PrincipalConserved ==
  (status = "done" /\ rows # <<>>) =>
    input.principal =
      PrincipalRepaid(rows) + rows[Len(rows)].closingBalance

\* C28: a loan of a product other than hipoteca_creciente, with one band of
\* constant rate and no prepayment, is repaid when the schedule ends: the
\* closing balance of the last row is at most 0.005, in every rounding mode.
C28_FixedLoanRepaid ==
  ( /\ status = "done"
    /\ input.product # "hipoteca_creciente"
    /\ Len(input.interest.bands) = 1
    /\ input.interest.bands[1].fromMonth = 1
    /\ input.interest.bands[1].toMonth = Null
    /\ input.prepayments = <<>>
    /\ rows # <<>> )
  => rows[Len(rows)].closingBalance <= Cent \div 2

\* C29: in the minimum-payment form no row pays more than the cycle owes
\* (balance with the new charges, interest and fees), and no row has a
\* negative endingBalance.
C29_PaymentWithinOwed ==
  engine = "minimum" =>
    \A i \in 1..Len(schedule) :
      /\ schedule[i].payment <=
           schedule[i].startingBalance + cinput.newChargesPerCycle
             + schedule[i].interestAccrued + schedule[i].fees
      /\ schedule[i].endingBalance >= 0

\* C30: for hipoteca_creciente with a positive initialPagoPorMil the reported
\* totals.pagoPorMil is that value rounded to cents, whatever the growth
\* window, increaseEndYear = 0 included.
C30_PagoPorMilReported ==
  ( /\ status = "done"
    /\ input.product = "hipoteca_creciente"
    /\ input.growth.initialPagoPorMil > 0 )
  => result[1].totals.pagoPorMil =
       round2(input.growth.initialPagoPorMil * (Unit \div PorMilDen), "round")

====
